---- MODULE Spec2Model ----
(***************************************************************************)
(* Model of streamlit_app.py: one Streamlit script that is re-run from top *)
(* to bottom (a "rendering pass") on every widget change.  Process-wide    *)
(* state is the two st.cache_data caches and the widgets' session values;  *)
(* everything else is rebuilt by each pass.                                *)
(*                                                                         *)
(* Cells of the CSV are modelled as strings: "1" and "2" stand for the     *)
(* integers 1 and 2 that pandas parses, "NaN" for pandas' missing marker.  *)
(***************************************************************************)
EXTENDS Integers, Sequences, FiniteSets

VARIABLES
    file,          \* data/survey_lung_cancer.csv: sequence of raw rows
    data_cache,    \* st.cache_data store of load_data: <<>> or <<table>>
    lung_df,       \* the pass's lung_df: sequence of rows keyed by column name
    first_norm,    \* history: lung_df as normalized by the first pass (<<>> or <<table>>)
    widgets,       \* session values of the widgets
    view,          \* lung_df_filtered: sequence of [idx, row]
    columns_to_display,
    lung_cancer_counts,
    gender_counts,
    models_cache,  \* st.cache_data store of load_models: <<>> or <<bundle>>
    models,        \* the pass's (lr_model, knn_model, label_encoder, scaler): <<>> or <<bundle>>
    pred,          \* what the Predict handler did in this pass
    rendered,      \* elements the pass has put on the page so far
    pc,            \* position of the pass in the script
    passes         \* number of passes started

vars == <<file, data_cache, lung_df, first_norm, widgets, view, columns_to_display,
          lung_cancer_counts, gender_counts, models_cache, models, pred, rendered,
          pc, passes>>

----------------------------------------------------------------------------
(* Bounds *)

MaxRows == 2
MaxPasses == 3
MaxUserOptions == 2

(* Program constants *)

AgeMin == 1
AgeMax == 120
DefaultAgeLo == 20
DefaultAgeHi == 50
DefaultAge == 30

NaN == "NaN"

main_features == <<"Smoking", "Peer Pressure", "Chronic Disease", "Alcohol Consuming">>

main_symptoms == <<"Yellow Fingers", "Anxiety", "Fatigue", "Allergy", "Wheezing", "Coughing",
                   "Shortness Of Breath", "Swallowing Difficulty", "Chest Pain">>

columns == <<"Gender", "Age">>

Range(s) == {s[i] : i \in 1..Len(s)}

\* Header of the input file, and the name load_data gives each column:
\* '_' -> ' ', strip, title-case.
RawHeader == <<"GENDER", "AGE", "SMOKING", "YELLOW_FINGERS", "ANXIETY", "PEER_PRESSURE",
               "CHRONIC DISEASE", "FATIGUE ", "ALLERGY ", "WHEEZING", "ALCOHOL CONSUMING",
               "COUGHING", "SHORTNESS OF BREATH", "SWALLOWING DIFFICULTY", "CHEST PAIN",
               "LUNG_CANCER">>

TitleName(h) ==
    CASE h = "GENDER" -> "Gender"
      [] h = "AGE" -> "Age"
      [] h = "SMOKING" -> "Smoking"
      [] h = "YELLOW_FINGERS" -> "Yellow Fingers"
      [] h = "ANXIETY" -> "Anxiety"
      [] h = "PEER_PRESSURE" -> "Peer Pressure"
      [] h = "CHRONIC DISEASE" -> "Chronic Disease"
      [] h = "FATIGUE " -> "Fatigue"
      [] h = "ALLERGY " -> "Allergy"
      [] h = "WHEEZING" -> "Wheezing"
      [] h = "ALCOHOL CONSUMING" -> "Alcohol Consuming"
      [] h = "COUGHING" -> "Coughing"
      [] h = "SHORTNESS OF BREATH" -> "Shortness Of Breath"
      [] h = "SWALLOWING DIFFICULTY" -> "Swallowing Difficulty"
      [] h = "CHEST PAIN" -> "Chest Pain"
      [] h = "LUNG_CANCER" -> "Lung Cancer"

DataColumns == [i \in 1..Len(RawHeader) |-> TitleName(RawHeader[i])]

\* Raw cells the input file may hold.  "3" is a code that is no key of
\* binary_mapping.
DataAges == {34, AgeMax}
GenderCells == {"M", "F", "3"}
FlagCells == {"1", "2"}
OutcomeCells == {"YES", "NO", "3"}

\* A raw row; its thirteen flag cells hold the same code.
RawRow(a, g, f, o) ==
    [h \in Range(RawHeader) |->
        CASE h = "AGE" -> a
          [] h = "GENDER" -> g
          [] h = "LUNG_CANCER" -> o
          [] OTHER -> f]

RawRows(f) == {RawRow(a, g, f, o) : a \in DataAges, g \in GenderCells, o \in OutcomeCells}

\* The files considered: up to MaxRows rows, one flag code throughout a file.
Files == UNION {[1..n -> RawRows(f)] : n \in 0..MaxRows, f \in FlagCells}

----------------------------------------------------------------------------
(* Dataset Loader *)

\* pd.read_csv followed by the renaming of the columns.
ReadCsv(f) ==
    [i \in 1..Len(f) |->
        [c \in Range(DataColumns) |->
            f[i][CHOOSE h \in Range(RawHeader) : TitleName(h) = c]]]

CacheReturnsReference == TRUE

\* Whether the value a st.cache_data function returns is the stored object
\* itself.  st.cache_data hands every caller its own copy, so a caller's
\* in-place changes do not reach the store.
CacheReturnsStoredObject == FALSE

----------------------------------------------------------------------------
(* Categorical Normalizer *)

binary_mapping_swapped(v) ==
    CASE v = "1" -> "Yes"
      [] v = "2" -> "No"
      [] v = "YES" -> "Yes"
      [] v = "NO" -> "No"
      [] v = "M" -> "Male"
      [] v = "F" -> "Female"
      [] OTHER -> NaN

\* binary_mapping as Series.map applies it: a value that is no key maps to NaN.
binary_mapping(v) ==
    CASE v = "1" -> "No"
      [] v = "2" -> "Yes"
      [] v = "YES" -> "Yes"
      [] v = "NO" -> "No"
      [] v = "M" -> "Male"
      [] v = "F" -> "Female"
      [] OTHER -> NaN

\* The loop over lung_df.columns: every column but Age is mapped.
MapColumns(df) ==
    [i \in 1..Len(df) |->
        [c \in DOMAIN df[i] |-> IF c /= "Age" THEN binary_mapping(df[i][c]) ELSE df[i][c]]]

----------------------------------------------------------------------------
(* Widgets *)

\* Series.unique().tolist(): the distinct values, NaN among them.
Unique(df, c) == {df[i][c] : i \in 1..Len(df)}

DefaultGenders == {"Male", "Female"}

FlagColumns(df_columns) ==
    SelectSeq(df_columns, LAMBDA c : c \notin Range(columns) /\ c /= "Lung Cancer")

DefaultWidgets ==
    [genders |-> DefaultGenders,
     features |-> main_features,
     symptoms |-> main_symptoms,
     ages |-> <<DefaultAgeLo, DefaultAgeHi>>,
     age |-> DefaultAge,
     gender |-> "Male",
     feature_inputs |-> [c \in Range(FlagColumns(DataColumns)) |-> "No"],
     model_choice |-> "Logistic Regression",
     button |-> FALSE]

SliderStops == {AgeMin, 34, AgeMax}
SliderRanges == {r \in SliderStops \X SliderStops : r[1] <= r[2]}

----------------------------------------------------------------------------
(* Filter Engine *)

\* A table's rows with their pandas index label, which every later step keeps.
Indexed(df) == [i \in 1..Len(df) |-> [idx |-> i, row |-> df[i]]]

\* Series.isin: NaN matches a NaN among the values.
Isin(v, values) == v \in values

BetweenExclusive(a, left, right) == left < a /\ a < right

\* Series.between, inclusive="both".
Between(a, left, right) == left <= a /\ a <= right

\* lung_df[mask]: the rows whose mask is True, in the table's order.
BooleanIndex(df, genders, ages) ==
    SelectSeq(Indexed(df),
              LAMBDA r : Isin(r.row["Gender"], genders)
                         /\ Between(r.row["Age"], ages[1], ages[2]))

Perms(n) == {p \in [1..n -> 1..n] : \A i, j \in 1..n : p[i] = p[j] => i = j}

\* sort_values(by="Age", ascending=True) with the default kind="quicksort",
\* which is not a stable sort: the result is ordered by Age and the order of
\* rows of equal Age is whatever the sorting routine of the build leaves.
SortValues(rows) ==
    {s \in {[i \in 1..Len(rows) |-> rows[p[i]]] : p \in Perms(Len(rows))} :
        \A i, j \in 1..Len(s) : i < j => s[i].row["Age"] <= s[j].row["Age"]}

ColumnsSymptomsFirst(features, symptoms) ==
    <<"Age", "Gender", "Lung Cancer">> \o symptoms \o features

\* The list handed to the column selection.
ColumnsToDisplay(features, symptoms) ==
    <<"Age", "Gender", "Lung Cancer">> \o features \o symptoms

\* df[columns_to_display]
SelectColumns(rows, cols) ==
    [i \in 1..Len(rows) |->
        [idx |-> rows[i].idx, row |-> [c \in Range(cols) |-> rows[i].row[c]]]]

----------------------------------------------------------------------------
(* Aggregator *)

\* The hash table pass of value_counts: the distinct labels in the order they
\* are first met, NaN left out (dropna=True).
CountedLabels(v, c) ==
    LET pos == SelectSeq([i \in 1..Len(v) |-> i],
                         LAMBDA i : v[i].row[c] /= NaN
                                    /\ \A j \in 1..(i - 1) : v[j].row[c] /= v[i].row[c])
    IN  [k \in 1..Len(pos) |-> v[pos[k]].row[c]]

Occurrences(v, c, l) == Cardinality({i \in 1..Len(v) : v[i].row[c] = l})

\* Series.value_counts().reset_index(): the groups sorted by descending count
\* with the default, not stable, sort; groups of equal count come in the order
\* the sorting routine of the build leaves.
ValueCounts(v, c) ==
    LET labels == CountedLabels(v, c)
        groups == [k \in 1..Len(labels) |->
                      [label |-> labels[k], count |-> Occurrences(v, c, labels[k])]]
    IN  {s \in {[i \in 1..Len(groups) |-> groups[p[i]]] : p \in Perms(Len(groups))} :
            \A i, j \in 1..Len(s) : i < j => s[i].count >= s[j].count}

----------------------------------------------------------------------------
(* Prediction Adapter *)

\* What the four artifacts under models/ may hold.  The encoder is a fitted
\* LabelEncoder (its sorted classes_), the scaler knows the number of
\* features it was fitted on, and a classifier may fail to predict.
EncoderClasses == {<<"No", "Yes">>, <<"NO", "YES">>}
ScalerFeatures == {Len(DataColumns) - 1, Len(DataColumns)}
ModelChoices == {"Logistic Regression", "K-Nearest Neighbors"}

Faults(b) ==
    (IF b.classes /= <<"No", "Yes">> THEN {"encoder"} ELSE {})
    \cup (IF b.n_features_in /= Len(DataColumns) - 1 THEN {"scaler"} ELSE {})
    \cup (IF b.broken /= {} THEN {"classifier"} ELSE {})

\* The bundles considered: a sound one, and those with one unsound artifact.
Bundles == {b \in [classes : EncoderClasses, n_features_in : ScalerFeatures,
                   broken : {{}, {"Logistic Regression"}}] : Cardinality(Faults(b)) <= 1}

\* LabelEncoder.transform of one label: its position in classes_, counted
\* from 0; a label that is no class raises (-1 here).
EncoderTransform(classes, label) ==
    IF label \in Range(classes)
    THEN (CHOOSE k \in 1..Len(classes) : classes[k] = label) - 1
    ELSE -1

\* The literal the handler writes for Gender.
GenderCode(gender) == IF gender = "Male" THEN 1 ELSE 0

\* input_data: the keys in insertion order, and their values.
InputColumns == <<"Gender", "Age">> \o FlagColumns(DataColumns) \o <<"Lung Cancer">>

InputData(w) ==
    [c \in Range(InputColumns) |->
        CASE c = "Gender" -> GenderCode(w.gender)
          [] c = "Age" -> w.age
          [] c = "Lung Cancer" -> "No"
          [] OTHER -> w.feature_inputs[c]]

\* The columns the encoding loop hands to label_encoder.transform.
EncodedColumns == SelectSeq(InputColumns, LAMBDA c : c \notin Range(columns))

NoPred == [pressed |-> FALSE, transformed |-> <<>>, vector |-> <<>>,
           failed |-> "", result |-> ""]

\* The Predict handler up to the classifier's answer: which columns went
\* through the encoder, the vector handed to the scaler, and the step that
\* raised, if one did.
RunPredict(w, b) ==
    LET data == InputData(w)
        bad == SelectSeq(EncodedColumns,
                         LAMBDA c : EncoderTransform(b.classes, data[c]) = -1)
        upto == IF bad = <<>> THEN Len(EncodedColumns)
                ELSE CHOOSE k \in 1..Len(EncodedColumns) : EncodedColumns[k] = bad[1]
        code(c) == IF c \in Range(columns) THEN data[c]
                   ELSE EncoderTransform(b.classes, data[c])
        kept == SelectSeq(InputColumns, LAMBDA c : c /= "Lung Cancer")
        vec == [k \in 1..Len(kept) |-> code(kept[k])]
    IN  [pressed |-> TRUE,
         transformed |-> SubSeq(EncodedColumns, 1, upto),
         vector |-> IF bad = <<>> THEN vec ELSE <<>>,
         failed |-> IF bad /= <<>> THEN "encoder"
                    ELSE IF Len(vec) /= b.n_features_in THEN "scaler"
                    ELSE IF w.model_choice \in b.broken THEN "classifier"
                    ELSE "",
         result |-> ""]

ResultText(class) ==
    IF class = 1 THEN "Likely to have lung cancer." ELSE "Unlikely to have lung cancer."

----------------------------------------------------------------------------
(* The script *)

Init ==
    /\ file \in Files
    /\ data_cache = <<>>
    /\ lung_df = <<>>
    /\ first_norm = <<>>
    /\ widgets = DefaultWidgets
    /\ view = <<>>
    /\ columns_to_display = <<>>
    /\ lung_cancer_counts = <<>>
    /\ gender_counts = <<>>
    /\ models_cache = <<>>
    /\ models = <<>>
    /\ pred = NoPred
    /\ rendered = {}
    /\ pc = "load_data"
    /\ passes = 1

\* An exception that nothing catches ends the pass: Streamlit shows it in
\* place and runs no further line of the script.
Raise ==
    /\ pc' = "aborted"
    /\ rendered' = rendered \cup {"exception"}

\* Title, introduction and images; lung_df = load_data().
LoadData ==
    /\ pc = "load_data"
    /\ data_cache' = IF data_cache = <<>> THEN <<ReadCsv(file)>> ELSE data_cache
    /\ lung_df' = data_cache'[1]
    /\ rendered' = rendered \cup {"title"}
    /\ pc' = "normalize"
    /\ UNCHANGED <<file, first_norm, widgets, view, columns_to_display, lung_cancer_counts,
                   gender_counts, models_cache, models, pred, passes>>

\* The mapping loop assigns the mapped columns into lung_df; the store sees
\* the assignment only if lung_df is the stored object.
Normalize ==
    /\ pc = "normalize"
    /\ lung_df' = MapColumns(lung_df)
    /\ data_cache' = IF CacheReturnsStoredObject THEN <<lung_df'>> ELSE data_cache
    /\ first_norm' = IF first_norm = <<>> THEN <<lung_df'>> ELSE first_norm
    /\ pc' = "filter"
    /\ UNCHANGED <<file, widgets, view, columns_to_display, lung_cancer_counts,
                   gender_counts, models_cache, models, pred, rendered, passes>>

\* The four filter widgets, the filter, the sort, the column selection and
\* st.dataframe.  st.multiselect raises when a default is not among the
\* options.
Filter ==
    /\ pc = "filter"
    /\ IF DefaultGenders \subseteq Unique(lung_df, "Gender")
       THEN \E sorted \in SortValues(BooleanIndex(lung_df, widgets.genders, widgets.ages)) :
               /\ columns_to_display' = ColumnsToDisplay(widgets.features, widgets.symptoms)
               /\ view' = SelectColumns(sorted, columns_to_display')
               /\ rendered' = rendered \cup {"genders", "features", "symptoms", "ages", "table"}
               /\ pc' = "lung_cancer_chart"
       ELSE /\ Raise
            /\ UNCHANGED <<view, columns_to_display>>
    /\ UNCHANGED <<file, data_cache, lung_df, first_norm, widgets, lung_cancer_counts,
                   gender_counts, models_cache, models, pred, passes>>

LungCancerChart ==
    /\ pc = "lung_cancer_chart"
    /\ lung_cancer_counts' \in ValueCounts(view, "Lung Cancer")
    /\ rendered' = rendered \cup {"lung_cancer_chart"}
    /\ pc' = "gender_chart"
    /\ UNCHANGED <<file, data_cache, lung_df, first_norm, widgets, view, columns_to_display,
                   gender_counts, models_cache, models, pred, passes>>

GenderChart ==
    /\ pc = "gender_chart"
    /\ gender_counts' \in ValueCounts(view, "Gender")
    /\ rendered' = rendered \cup {"gender_chart"}
    /\ pc' = "load_models"
    /\ UNCHANGED <<file, data_cache, lung_df, first_norm, widgets, view, columns_to_display,
                   lung_cancer_counts, models_cache, models, pred, passes>>

\* load_models(): served from the store once it has run; otherwise the four
\* joblib.load calls, any of which raises on an absent or corrupt artifact.
LoadModelsCached ==
    /\ pc = "load_models"
    /\ models_cache /= <<>>
    /\ models' = models_cache
    /\ rendered' = rendered \cup {"survey"}
    /\ pc' = "predict"
    /\ UNCHANGED <<file, data_cache, lung_df, first_norm, widgets, view, columns_to_display,
                   lung_cancer_counts, gender_counts, models_cache, pred, passes>>

LoadModelsRead ==
    /\ pc = "load_models"
    /\ models_cache = <<>>
    /\ \E b \in Bundles :
          /\ models_cache' = <<b>>
          /\ models' = <<b>>
    /\ rendered' = rendered \cup {"survey"}
    /\ pc' = "predict"
    /\ UNCHANGED <<file, data_cache, lung_df, first_norm, widgets, view, columns_to_display,
                   lung_cancer_counts, gender_counts, pred, passes>>

LoadModelsFail ==
    /\ pc = "load_models"
    /\ models_cache = <<>>
    /\ rendered' = rendered \cup {"survey", "exception"}
    /\ pc' = "aborted"
    /\ UNCHANGED <<file, data_cache, lung_df, first_norm, widgets, view, columns_to_display,
                   lung_cancer_counts, gender_counts, models_cache, models, pred, passes>>

PredictWidgets == {"age", "gender", "feature_inputs", "model_choice", "button"}

\* The prediction widgets; the button is False in this pass.
PredictIdle ==
    /\ pc = "predict"
    /\ ~widgets.button
    /\ rendered' = rendered \cup PredictWidgets
    /\ pc' = "tail"
    /\ UNCHANGED <<file, data_cache, lung_df, first_norm, widgets, view, columns_to_display,
                   lung_cancer_counts, gender_counts, models_cache, models, pred, passes>>

\* The prediction widgets and the handler of the button, to its end: the
\* result is written, or a step raised.
Predict ==
    /\ pc = "predict"
    /\ widgets.button
    /\ LET run == RunPredict(widgets, models[1])
       IN  IF run.failed = ""
           THEN \E class \in {0, 1} :
                   /\ pred' = [run EXCEPT !.result = ResultText(class)]
                   /\ rendered' = rendered \cup PredictWidgets \cup {"result"}
                   /\ pc' = "tail"
           ELSE /\ pred' = run
                /\ rendered' = rendered \cup PredictWidgets \cup {"exception"}
                /\ pc' = "aborted"
    /\ UNCHANGED <<file, data_cache, lung_df, first_norm, widgets, view, columns_to_display,
                   lung_cancer_counts, gender_counts, models_cache, models, passes>>

\* Logo, research and references sections.
Footer ==
    /\ pc = "tail"
    /\ rendered' = rendered \cup {"logo", "research", "references"}
    /\ pc' = "done"
    /\ UNCHANGED <<file, data_cache, lung_df, first_norm, widgets, view, columns_to_display,
                   lung_cancer_counts, gender_counts, models_cache, models, pred, passes>>

----------------------------------------------------------------------------
(* The user: one change of one rendered widget starts the next pass *)

\* A multiselect's value after one click: an entry removed, or an option
\* not yet chosen put at the end.
\* The user works on the first MaxUserOptions entries of an option list.
UserOptions(options) ==
    {options[i] : i \in 1..(IF MaxUserOptions < Len(options) THEN MaxUserOptions
                            ELSE Len(options))}

MultiselectClicks(value, options) ==
    {SelectSeq(value, LAMBDA x : x /= o) : o \in Range(value) \cap UserOptions(options)}
    \cup {Append(value, o) : o \in UserOptions(options) \ Range(value)}

Toggle(v) == IF v = "No" THEN "Yes" ELSE "No"

WidgetChanges(w) ==
    IF "genders" \in rendered
    THEN {[w EXCEPT !.genders = (w.genders \ {g}) \cup ({g} \ w.genders)] :
              g \in Unique(lung_df, "Gender")}
         \cup {[w EXCEPT !.features = f] : f \in MultiselectClicks(w.features, main_features)}
         \cup {[w EXCEPT !.symptoms = f] : f \in MultiselectClicks(w.symptoms, main_symptoms)}
         \cup {[w EXCEPT !.ages = r] : r \in SliderRanges \ {w.ages}}
         \cup (IF "button" \in rendered
               THEN {[w EXCEPT !.age = a] : a \in SliderStops \ {w.age}}
                    \cup {[w EXCEPT !.gender = IF w.gender = "Male" THEN "Female" ELSE "Male"]}
                    \cup {[w EXCEPT !.feature_inputs[c] = Toggle(w.feature_inputs[c])] :
                             c \in UserOptions(FlagColumns(DataColumns))}
                    \cup {[w EXCEPT !.model_choice = m] : m \in ModelChoices \ {w.model_choice}}
                    \cup {[w EXCEPT !.button = TRUE]}
               ELSE {})
    ELSE {}

\* The button reads True only in the pass its click starts.
Rerun ==
    /\ pc \in {"done", "aborted"}
    /\ passes < MaxPasses
    /\ \E w \in WidgetChanges([widgets EXCEPT !.button = FALSE]) : widgets' = w
    /\ passes' = passes + 1
    /\ lung_df' = <<>>
    /\ view' = <<>>
    /\ columns_to_display' = <<>>
    /\ lung_cancer_counts' = <<>>
    /\ gender_counts' = <<>>
    /\ models' = <<>>
    /\ pred' = NoPred
    /\ rendered' = {}
    /\ pc' = "load_data"
    /\ UNCHANGED <<file, data_cache, first_norm, models_cache>>

Next ==
    \/ LoadData
    \/ Normalize
    \/ Filter
    \/ LungCancerChart
    \/ GenderChart
    \/ LoadModelsCached
    \/ LoadModelsRead
    \/ LoadModelsFail
    \/ PredictIdle
    \/ Predict
    \/ Footer
    \/ Rerun

Spec == Init /\ [][Next]_vars

----------------------------------------------------------------------------
(* Properties *)

\* The pass has normalized lung_df (and may have ended since).
Normalized == pc \notin {"load_data", "normalize"}

TableShown == "table" \in rendered

\* Index labels of the rows the selection asks for.
Wanted ==
    {i \in 1..Len(lung_df) :
        /\ lung_df[i]["Gender"] \in widgets.genders
        /\ widgets.ages[1] <= lung_df[i]["Age"]
        /\ lung_df[i]["Age"] <= widgets.ages[2]}

RECURSIVE SumCounts(_)
SumCounts(s) == IF s = <<>> THEN 0 ELSE s[1].count + SumCounts(SubSeq(s, 2, Len(s)))

\* Position at which a label is first seen in a column of the view.
FirstSeenAt(c, l) == CHOOSE i \in 1..Len(view) : view[i].row[c] = l
                                                  /\ \A j \in 1..(i - 1) : view[j].row[c] /= l

InFixedOrder(picked, options) == SelectSeq(options, LAMBDA o : o \in Range(picked))

\* C1: on a Predict request every non-numeric field of the profile (Gender
\* and every Yes/No flag) gets its code from the persisted encoder.
C1_EveryFieldThroughEncoder ==
    (pred.pressed /\ pred.failed = "")
        => \A c \in Range(InputColumns) \ {"Age"} : c \in Range(pred.transformed)

\* C2: a row is in the filtered view iff its normalized gender is selected
\* and lo <= age <= hi, both bounds inclusive; an empty gender set gives no
\* rows; no retained row is duplicated or lost.
C2_FilterRetainsExactly ==
    TableShown =>
        /\ {view[k].idx : k \in 1..Len(view)} = Wanted
        /\ Len(view) = Cardinality(Wanted)
        /\ \A k \in 1..Len(view) : \A c \in {"Age", "Gender", "Lung Cancer"} :
               view[k].row[c] = lung_df[view[k].idx][c]
        /\ (widgets.genders = {} => view = <<>>)

\* A row whose age is exactly the upper slider bound 120 is retained while
\* the other row of the dataset is filtered out.
C2_Witness ==
    /\ TableShown
    /\ Len(lung_df) = 2
    /\ Len(view) = 1
    /\ widgets.ages[2] = AgeMax
    /\ view[1].row["Age"] = AgeMax

C4_CountsSumToRows ==
    /\ "lung_cancer_chart" \in rendered => SumCounts(lung_cancer_counts) = Len(view)
    /\ "gender_chart" \in rendered => SumCounts(gender_counts) = Len(view)

\* C5: the view is in non-decreasing age order and rows of equal age keep
\* the relative order they have in the dataset.
C5_SortedAndStable ==
    TableShown =>
        \A i, j \in 1..Len(view) : i < j =>
            /\ view[i].row["Age"] <= view[j].row["Age"]
            /\ (view[i].row["Age"] = view[j].row["Age"] => view[i].idx < view[j].idx)

\* C6: a failing step of a Predict request is caught inside the request and
\* the pass still renders every section after the prediction block.
C6_FailedPredictStillCompletes ==
    pred.failed /= "" =>
        /\ pc /= "aborted"
        /\ (pc = "done" => {"logo", "research", "references"} \subseteq rendered)

\* C7: the table or a chart is never on the page while the pass has not
\* loaded the model bundle.
C7_BundleBeforeOutput ==
    rendered \cap {"table", "lung_cancer_chart", "gender_chart"} /= {} => models /= <<>>

C9_DescendingTiesFirstSeen ==
    /\ "lung_cancer_chart" \in rendered =>
          \A i, j \in 1..Len(lung_cancer_counts) : i < j =>
              \/ lung_cancer_counts[i].count > lung_cancer_counts[j].count
              \/ /\ lung_cancer_counts[i].count = lung_cancer_counts[j].count
                 /\ FirstSeenAt("Lung Cancer", lung_cancer_counts[i].label)
                      < FirstSeenAt("Lung Cancer", lung_cancer_counts[j].label)
    /\ "gender_chart" \in rendered =>
          \A i, j \in 1..Len(gender_counts) : i < j =>
              \/ gender_counts[i].count > gender_counts[j].count
              \/ /\ gender_counts[i].count = gender_counts[j].count
                 /\ FirstSeenAt("Gender", gender_counts[i].label)
                      < FirstSeenAt("Gender", gender_counts[j].label)

\* C10: in every pass the normalizer is applied to the raw table of the
\* file, never to labels an earlier pass made canonical, and the normalized
\* dataset equals the one of the first pass.
C10_SameNormalizedDatasetEveryPass ==
    /\ pc = "normalize" => lung_df = ReadCsv(file)
    /\ Normalized => lung_df = first_norm[1]

\* A later pass has normalized a dataset that has rows.
C10_Witness ==
    /\ passes >= 2
    /\ Normalized
    /\ Len(lung_df) > 0
    /\ lung_df[1]["Gender"] \in {"Male", "Female"}

====
